---- MODULE Spec2Model ----
(***************************************************************************)
(* Model of the noise-cancellation repository.  The repository holds       *)
(* near-duplicate variants of one audio pipeline, each a program of its    *)
(* own:                                                                    *)
(*   "lowLatency"      src/src/App.jsx            (predictive, blended)    *)
(*   "noiseProcessor"  src/unnamed/part_000:1-193 (class NoiseProcessor)   *)
(*   "delay"           src/unnamed/part_001       (delay-line processor)   *)
(*   "carOptimized"    src/unnamed/part_000:194-431 (adaptive gains)    *)
(* A behaviour runs exactly one of them: Init chooses `variant` and only   *)
(* that variant's handlers are enabled afterwards.                         *)
(*                                                                         *)
(* Samples are fixed-point numbers in tenths (10 stands for 1.0), so that  *)
(* the weights 0.5 / 0.3 / 0.2 and the mix 0.7 / 0.3 are exact integer     *)
(* arithmetic; Float32 rounding is not modelled.  Array indices are the    *)
(* source's 0-based indices; a frame is a sequence, so JS a[j] is a[j+1].  *)
(***************************************************************************)
EXTENDS Integers, Sequences, FiniteSets, TLC

VARIABLES
    variant,          \* which program of the repository this behaviour runs
    isListening,      \* React state isListening
    isProcessing,     \* React state isProcessing
    error,            \* React state error ('' when none)
    audioContextRef,  \* audioContextRef.current: "null" or "ctx"
    connected,        \* the script processor is connected (callbacks fire)
    nodes,            \* NoiseProcessor.nodes: the names of the nodes it holds
    filters,          \* nodes.filters / filtersRef.current: the live filters
    config,           \* NoiseProcessor.config
    pastPatterns,     \* pastPatternsRef.current / this.pastPatterns
    path,             \* branch the session's last predict call took
    matched,          \* indices its search selected, best first
    prediction,       \* the frame it returned
    output,           \* outputData written by the session's last callback
    log,              \* frames fed since the history was last cleared
    connectionType,   \* React state connectionType (delay variant)
    delayTime,        \* delayNodeRef.current.delayTime.value, in samples
    latency,          \* React state latency (delay variant)
    delayBuffer,      \* the delay line of the processor closure
    delayWritePtr,    \* its write index
    delayReadPtr,     \* its read index
    written,          \* every sample written to the delay line this session
    readOut,          \* every sample read from the delay line this session
    engineBuffer,     \* ring buffers of the car-optimized processor closure
    tireBuffer,
    windBuffer,
    bufferIndex,      \* their shared write index
    energy,           \* the band energies its last callback computed
    pending,          \* getUserMedia requests neither resolved nor rejected
    orphans,          \* processors still connected in a context that no ref
                      \* holds any more
    sessionFrames,    \* frame callbacks run since the pipeline last left Idle
    teardown          \* the nodes the latest stop or dispose disconnected
                      \* (and the context it closed), in call order

vars == << variant, isListening, isProcessing, error, audioContextRef,
           connected, nodes, filters, config, pastPatterns, path, matched,
           prediction, output, log, connectionType, delayTime, latency,
           delayBuffer, delayWritePtr, delayReadPtr, written, readOut,
           engineBuffer, tireBuffer, windBuffer, bufferIndex, energy,
           pending, orphans, sessionFrames, teardown >>

uiVars    == << isListening, isProcessing, error, audioContextRef >>
predVars  == << pastPatterns, path, matched, prediction, output, log >>
delayVars == << connectionType, delayTime, latency, delayBuffer,
                delayWritePtr, delayReadPtr, written, readOut >>
carVars   == << engineBuffer, tireBuffer, windBuffer, bufferIndex, energy >>
asyncVars == << pending, orphans, sessionFrames >>
graphVars == << teardown >>

----------------------------------------------------------------------------
(* Sizes.  The source's sizes are scaled down, keeping their order         *)
(* (pattern length < frame length, search window < capacity, top-K + 2 <   *)
(* capacity); the value of the source is given with each.                  *)

\* App.jsx:19  BUFFER_SIZE = 256
BUFFER_SIZE == 4
\* App.jsx:21  PATTERN_LENGTH = 128
PATTERN_LENGTH == 2
\* App.jsx:20  PREDICTION_BUFFER_SIZE = 512
PREDICTION_BUFFER_SIZE == 5
\* App.jsx:74  pastPatternsRef.current.length - 8
RECENT_WINDOW == 4
\* App.jsx:81  j += 4
STRIDE == 2

\* part_000:65  createScriptProcessor(1024, 1, 1)
NP_BUFFER_SIZE == 4
\* part_000:8   patternLength: 512
DefaultPatternLength == 2
\* part_000:7   predictionBufferSize: 2048
DefaultPredictionBufferSize == 6
\* part_000:110 .slice(0, 3)
TopK == 3

\* Frames fed to one processor before the model stops feeding it.
MaxFrames == 7

Abs(x) == IF x < 0 THEN -x ELSE x
Min(a, b) == IF a < b THEN a ELSE b
Max(a, b) == IF a > b THEN a ELSE b

\* Sample values: 0.0 and 1.0.
SampleValues == {0, 10}

\* A frame that holds a up to the start of its trailing window and b in it.
Step(n, l, a, b) == [i \in 1..n |-> IF i <= n - l THEN a ELSE b]
\* A frame that alternates between the two sample values.
Alt(n, p) == [i \in 1..n |-> IF (i + p) % 2 = 0 THEN 0 ELSE 10]

\* The frames the capture side delivers: n samples each.
Frames(n, l) ==
    { Step(n, l, 0, 10), Step(n, l, 10, 0), Alt(n, 0), Alt(n, 1) }

----------------------------------------------------------------------------
(* Array helpers of the language.                                          *)

\* Array.prototype.slice(k) / TypedArray.prototype.slice(k), one argument.
Slice(p, k) ==
    LET n == Len(p)
        from == IF k < 0 THEN Max(n + k, 0) ELSE Min(k, n)
    IN  [i \in 1..(n - from) |-> p[from + i]]

\* a[j] || 0 for a numeric array: a missing element and 0 both give 0.
OrZero(a, j) == IF j + 1 \in DOMAIN a THEN a[j + 1] ELSE 0

\* Mutations of PushShift: one that never shifts, one that drops the frame
\* just pushed instead of the oldest.
ShiftNever(hist, frame, capacity) == Append(hist, frame)
DropNewest(hist, frame, capacity) ==
    LET pushed == Append(hist, frame)
    IN  IF Len(pushed) > capacity THEN SubSeq(pushed, 1, capacity) ELSE pushed

\* App.jsx:43-46 and part_000:72-75  push(frame), then one shift() if the
\* length exceeds the capacity
PushShift(hist, frame, capacity) ==
    LET pushed == Append(hist, frame)
    IN  IF Len(pushed) > capacity THEN Tail(pushed) ELSE pushed

----------------------------------------------------------------------------
(* Low-latency variant: predictNextPattern, App.jsx:61-93.                 *)

\* App.jsx:67  currentPattern.slice(-PATTERN_LENGTH)
RecentPattern(currentPattern, patternLength) ==
    Slice(currentPattern, -patternLength)

\* App.jsx:78-83  the strided sum of absolute differences
RECURSIVE StridedSum(_, _, _)
StridedSum(pattern, recentPattern, j) ==
    IF j >= PATTERN_LENGTH THEN 0
    ELSE Abs(pattern[j + 1] - recentPattern[j + 1])
         + StridedSum(pattern, recentPattern, j + STRIDE)

QuickSimilarity(pattern, recentPattern) == StridedSum(pattern, recentPattern, 0)

\* App.jsx:70-71  bestMatchIdx = 0, bestSimilarity = Infinity
NoBest == [idx |-> 0, inf |-> TRUE, sim |-> 0]

\* Mutation of Improves: a tie replaces the best match too.
ImprovesOrTies(similarity, best) == best.inf \/ similarity <= best.sim

\* App.jsx:85  similarity < bestSimilarity
Improves(similarity, best) == best.inf \/ similarity < best.sim

\* Mutation of RecentHistoryStart: the search starts at the oldest frame.
WholeHistoryStart(hist) == 0

\* App.jsx:74  Math.max(0, pastPatternsRef.current.length - 8)
RecentHistoryStart(hist) == Max(0, Len(hist) - RECENT_WINDOW)

\* App.jsx:76-89  the search loop, from index i on
RECURSIVE ScanFrom(_, _, _, _)
ScanFrom(hist, recentPattern, i, best) ==
    IF i >= Len(hist) THEN best
    ELSE LET similarity == QuickSimilarity(hist[i + 1], recentPattern)
         IN  ScanFrom(hist, recentPattern, i + 1,
                      IF Improves(similarity, best)
                      THEN [idx |-> i, inf |-> FALSE, sim |-> similarity]
                      ELSE best)

\* Mutation of IdentityFallback: the trailing window is returned.
TrailingWindowFallback(currentPattern) ==
    Slice(currentPattern, -PATTERN_LENGTH)

\* App.jsx:62-64 and part_000:88-90  return currentPattern
IdentityFallback(currentPattern) == currentPattern

\* App.jsx:61-93  predictNextPattern; hist is pastPatternsRef.current
predictNextPattern(hist, currentPattern) ==
    IF Len(hist) < 2
    THEN [path    |-> "identity",
          matched |-> << >>,
          frame   |-> IdentityFallback(currentPattern)]
    ELSE LET recentPattern == RecentPattern(currentPattern, PATTERN_LENGTH)
             best == ScanFrom(hist, recentPattern, RecentHistoryStart(hist),
                              NoBest)
         IN  [path    |-> "matched",
              matched |-> << best.idx >>,
              frame   |-> IF best.idx + 1 \in DOMAIN hist
                          THEN hist[best.idx + 1] ELSE currentPattern]

\* App.jsx:52-55  outputData[i] = (-inputData[i] * 0.7) + (prediction[i] || 0) * 0.3
Blend(inputData, pred) ==
    [i \in 1..Len(inputData) |->
        ((-inputData[i]) * 7 + OrZero(pred, i - 1) * 3) \div 10]

----------------------------------------------------------------------------
(* NoiseProcessor: _predictNextPattern, part_000:87-126.                   *)

\* Mutation of predictionWeights: the best match weighs least.
ReversedWeights == << 2, 3, 5 >>

\* part_000:20  this.predictionWeights = [0.5, 0.3, 0.2], in tenths
predictionWeights == << 5, 3, 2 >>

\* part_000:96-103  the sum of absolute differences over compareLength
RECURSIVE SumAbs(_, _, _, _)
SumAbs(pattern, recentPattern, i, compareLength) ==
    IF i >= compareLength THEN 0
    ELSE Abs(pattern[i + 1] - recentPattern[i + 1])
         + SumAbs(pattern, recentPattern, i + 1, compareLength)

Similarity(pattern, recentPattern, patternLength) ==
    SumAbs(pattern, recentPattern, 0, Min(patternLength, Len(pattern)))

\* part_000:95-104, 108  similarities.map((sim, idx) => ({ sim, idx }))
Similarities(hist, recentPattern, patternLength) ==
    [k \in 1..Len(hist) |->
        [sim |-> Similarity(hist[k], recentPattern, patternLength),
         idx |-> k - 1]]

\* part_000:109  sort((a, b) => a.sim - b.sim): Array.prototype.sort is
\* stable, so items of equal sim keep their order.  Insert puts item x
\* behind every item that does not compare greater than it.
RECURSIVE Insert(_, _)
Insert(sorted, x) ==
    IF sorted = << >> THEN << x >>
    ELSE IF Head(sorted).sim <= x.sim
         THEN << Head(sorted) >> \o Insert(Tail(sorted), x)
         ELSE << x >> \o sorted

RECURSIVE SortBySim(_)
SortBySim(items) ==
    IF items = << >> THEN << >>
    ELSE Insert(SortBySim(SubSeq(items, 1, Len(items) - 1)),
                items[Len(items)])

\* Mutation of TakeTop: one match fewer is kept.
TakeTwo(sorted) == SubSeq(sorted, 1, Min(TopK - 1, Len(sorted)))

\* part_000:110  .slice(0, 3)
TakeTop(sorted) == SubSeq(sorted, 1, Min(TopK, Len(sorted)))

\* part_000:107-111  the indices of the most similar patterns, best first
MostSimilarIndices(hist, recentPattern, patternLength) ==
    LET top == TakeTop(SortBySim(Similarities(hist, recentPattern,
                                              patternLength)))
    IN  [k \in 1..Len(top) |-> top[k].idx]

\* part_000:116-123  prediction[i] += (pattern[i] || 0) * weight
RECURSIVE WeightedSum(_, _, _, _)
WeightedSum(hist, indices, weightIdx, i) ==
    IF weightIdx >= Len(indices) THEN 0
    ELSE (OrZero(hist[indices[weightIdx + 1] + 1], i)
              * predictionWeights[weightIdx + 1]) \div 10
         + WeightedSum(hist, indices, weightIdx + 1, i)

\* Mutation of PredictionLength: the prediction is as long as the frame.
FrameSizedPrediction(currentPattern, patternLength) == Len(currentPattern)

\* part_000:114  new Float32Array(this.config.patternLength)
PredictionLength(currentPattern, patternLength) == patternLength

\* part_000:114  new Float32Array(length) throws a RangeError when the
\* length is negative
Float32ArrayThrows(length) == length < 0

\* part_000:87-126  _predictNextPattern; hist is this.pastPatterns.  The
\* path "threw" stands for the exception leaving the function.
NP_predictNextPattern(hist, currentPattern, patternLength) ==
    IF Len(hist) < 2
    THEN [path    |-> "identity",
          matched |-> << >>,
          frame   |-> IdentityFallback(currentPattern)]
    ELSE LET recentPattern == RecentPattern(currentPattern, patternLength)
             indices == MostSimilarIndices(hist, recentPattern, patternLength)
             length == PredictionLength(currentPattern, patternLength)
         IN  IF Float32ArrayThrows(length)
             THEN [path    |-> "threw",
                   matched |-> indices,
                   frame   |-> << >>]
             ELSE [path    |-> "matched",
                   matched |-> indices,
                   frame   |-> [i \in 1..length |->
                                   WeightedSum(hist, indices, 0, i - 1)]]

\* Mutation of Playback: past the end of the prediction it starts over
\* instead of writing 0.
PlaybackWrapped(inputData, pred) ==
    [i \in 1..Len(inputData) |->
        IF pred = << >> THEN 0 ELSE pred[((i - 1) % Len(pred)) + 1]]

\* part_000:79-81  outputData[i] = prediction[i] || 0
Playback(inputData, pred) ==
    [i \in 1..Len(inputData) |-> OrZero(pred, i - 1)]

\* part_000:69  outputData as the browser hands it to a callback: silence,
\* or what an earlier callback wrote if the browser reuses the buffer
HandedOut(inputData, earlier) ==
    { [i \in 1..Len(inputData) |-> 0] }
        \cup (IF earlier = << >> THEN {} ELSE {earlier})

----------------------------------------------------------------------------
(* Delay variant: the delay line of createCarOptimizedProcessor,           *)
(* part_001:30-61.                                                         *)

\* part_001:21  BUFFER_SIZE = 4096
DELAY_BUFFER_SIZE == 2
\* part_001:32  delayBufferSize = Math.ceil(context.sampleRate * 0.2) = 9600
delayBufferSize == 5
\* Frames fed to one delay processor before the model stops feeding it.
MaxDelayFrames == 3

\* The frames the capture side delivers to the delay processor.
DelayFrames == [1..DELAY_BUFFER_SIZE -> SampleValues]

\* part_001:33  new Float32Array(delayBufferSize), indexed from 0
ZeroBuffer == [k \in 0..(delayBufferSize - 1) |-> 0]

\* part_001:44, 56  ptr = (ptr + 1) % delayBufferSize
Advance(ptr) == (ptr + 1) % delayBufferSize

\* part_001:42-45  the write loop, from input[i] on
RECURSIVE WriteFrom(_, _, _, _)
WriteFrom(buf, writePtr, input, i) ==
    IF i >= Len(input) THEN [buf |-> buf, ptr |-> writePtr]
    ELSE WriteFrom([buf EXCEPT ![writePtr] = input[i + 1]],
                   Advance(writePtr), input, i + 1)

\* Mutation of ReadFrom: the loop runs once too often (i <= output.length).
RECURSIVE ReadOneMore(_, _, _)
ReadOneMore(buf, readPtr, n) ==
    IF n < 0 THEN [samples |-> << >>, ptr |-> readPtr]
    ELSE LET rest == ReadOneMore(buf, Advance(readPtr), n - 1)
         IN  [samples |-> << buf[readPtr] >> \o rest.samples,
              ptr     |-> rest.ptr]

\* part_001:53-57  the read loop, n samples: the samples read, in order
RECURSIVE ReadFrom(_, _, _)
ReadFrom(buf, readPtr, n) ==
    IF n = 0 THEN [samples |-> << >>, ptr |-> readPtr]
    ELSE LET rest == ReadFrom(buf, Advance(readPtr), n - 1)
         IN  [samples |-> << buf[readPtr] >> \o rest.samples,
              ptr     |-> rest.ptr]

\* part_001:55  output[i] = -delayedSample
Invert(samples) == [i \in 1..Len(samples) |-> -samples[i]]

\* part_001:91  delayTime.value = connectionType === 'bluetooth' ? 0.2 : 0,
\* in samples at the context's rate: 0.2 s is delayBufferSize samples
DelayTimeFor(type) == IF type = "bluetooth" THEN delayBufferSize ELSE 0

ConnectionTypes == {"bluetooth", "wired"}
\* audioContextRef.current.outputLatency as the browser reports it, in ms
OutputLatencies == {0, 20}

----------------------------------------------------------------------------
(* Car-optimized variant: createCarOptimizedProcessor, part_000:223-280.   *)
(* Samples are in tenths, so a band energy (a sum of squares) is in        *)
(* hundredths and the threshold 0.1 is 10; filter gains are in tenths of a *)
(* dB, so that base gain times 1.2 or 0.8 is base gain times 12 or 8.      *)

\* part_000:246  i % 16 === 0
DECIMATION == 2
\* part_000:231-233  new Float32Array(16)
RING_SIZE == 2
\* part_000:213  BUFFER_SIZE = 256, that is 16 * 16: the samples kept of one
\* frame are exactly one turn of a ring
CAR_BUFFER_SIZE == DECIMATION * RING_SIZE
\* part_000:270-272  energy > 0.1, in hundredths
ENERGY_THRESHOLD == 10
\* part_000:270-272  ? 1.2 : 0.8, in tenths
BOOST_FACTOR == 12
ATTENUATE_FACTOR == 8
\* Frames fed to one car-optimized processor before the model stops.
MaxCarFrames == 3

\* part_000:270-272  the base gains -15, -12, -10
CarBaseGains == << -15, -12, -10 >>

\* Sample values 0.0, 0.1 and 0.3: 0.1^2 + 0.3^2 is the threshold itself.
CarSampleValues == {0, 1, 3}

\* The frames the capture side delivers to the car-optimized processor:
\* three of constant amplitude, one that steps from 0.1 to 0.3 half way and
\* one that is 0.3 on every other sample only.
CarFrames(n) ==
    { [i \in 1..n |-> a] : a \in CarSampleValues }
      \cup { Step(n, n - (n \div 2), 1, 3),
             [i \in 1..n |-> IF i % 2 = 1 THEN 3 ELSE 0] }

\* part_000:231-233  new Float32Array(16), indexed from 0
ZeroRing == [k \in 0..(RING_SIZE - 1) |-> 0]

ZeroEnergy == [engine |-> 0, tire |-> 0, wind |-> 0]

\* Mutation of StoreFrom: every sample is stored, not every 16th.
RECURSIVE StoreEvery(_, _, _, _)
StoreEvery(ring, index, inputBuffer, i) ==
    IF i >= Len(inputBuffer) THEN [ring |-> ring, index |-> index]
    ELSE StoreEvery([ring EXCEPT ![index] = inputBuffer[i + 1]],
                    (index + 1) % RING_SIZE, inputBuffer, i + 1)

\* Mutation of StoreFrom: the first sample of a frame is not stored.
RECURSIVE StoreAfterFirst(_, _, _, _)
StoreAfterFirst(ring, index, inputBuffer, i) ==
    IF i >= CAR_BUFFER_SIZE THEN [ring |-> ring, index |-> index]
    ELSE IF i % DECIMATION = 0 /\ i > 0
         THEN StoreAfterFirst([ring EXCEPT ![index] = inputBuffer[i + 1]],
                              (index + 1) % RING_SIZE, inputBuffer, i + 1)
         ELSE StoreAfterFirst(ring, index, inputBuffer, i + 1)

\* part_000:244-251  the store loop, from sample i on
RECURSIVE StoreFrom(_, _, _, _)
StoreFrom(ring, index, inputBuffer, i) ==
    IF i >= CAR_BUFFER_SIZE THEN [ring |-> ring, index |-> index]
    ELSE IF i % DECIMATION = 0
         THEN StoreFrom([ring EXCEPT ![index] = inputBuffer[i + 1]],
                        (index + 1) % RING_SIZE, inputBuffer, i + 1)
         ELSE StoreFrom(ring, index, inputBuffer, i + 1)

\* part_000:262-266  energy += buffer[i] * buffer[i], from slot i on
RECURSIVE BandEnergy(_, _)
BandEnergy(ring, i) ==
    IF i >= RING_SIZE THEN 0
    ELSE ring[i] * ring[i] + BandEnergy(ring, i + 1)

\* Mutation of GainFactor: an energy equal to the threshold boosts too.
BoostAtThreshold(bandEnergy) ==
    IF bandEnergy >= ENERGY_THRESHOLD THEN BOOST_FACTOR ELSE ATTENUATE_FACTOR

\* part_000:270-272  (energy > 0.1 ? 1.2 : 0.8)
GainFactor(bandEnergy) ==
    IF bandEnergy > ENERGY_THRESHOLD THEN BOOST_FACTOR ELSE ATTENUATE_FACTOR

\* part_000:269-273  the gains of the first three filters, if there are three
AdaptGains(filterNodes, e) ==
    IF Len(filterNodes) >= 3
    THEN [i \in 1..Len(filterNodes) |->
            IF i = 1
            THEN [filterNodes[i] EXCEPT
                     !.gain = CarBaseGains[1] * GainFactor(e.engine)]
            ELSE IF i = 2
            THEN [filterNodes[i] EXCEPT
                     !.gain = CarBaseGains[2] * GainFactor(e.tire)]
            ELSE IF i = 3
            THEN [filterNodes[i] EXCEPT
                     !.gain = CarBaseGains[3] * GainFactor(e.wind)]
            ELSE filterNodes[i]]
    ELSE filterNodes

\* part_000:319-323  the car-specific filters; Q and gain in tenths
CarFilters ==
    << [frequency |-> 40,  Q |-> 20, gain |-> -150],
       [frequency |-> 70,  Q |-> 15, gain |-> -120],
       [frequency |-> 140, Q |-> 10, gain |-> -100] >>

----------------------------------------------------------------------------
(* NoiseProcessor: configuration, part_000:6-16 and 155-174.               *)

\* part_000:10-15  Q in tenths
DefaultFilterStages ==
    << [frequency |-> 40,  Q |-> 25, gain |-> -15],
       [frequency |-> 100, Q |-> 30, gain |-> -12],
       [frequency |-> 135, Q |-> 20, gain |-> -10],
       [frequency |-> 200, Q |-> 15, gain |-> -8] >>

\* part_000:6-16  this.config
DefaultConfig ==
    [predictionBufferSize |-> DefaultPredictionBufferSize,
     patternLength        |-> DefaultPatternLength,
     lookAheadMs          |-> 50,
     filterStages         |-> DefaultFilterStages]

\* The programs without a config object.
NoConfig == [k \in {} |-> 0]

\* Mutation of MergeConfig: the new config replaces the old one, only
\* filterStages falls back to the old value.
ReplaceConfig(old, newConfig) ==
    [k \in DOMAIN newConfig \cup {"filterStages"} |->
        IF k \in DOMAIN newConfig THEN newConfig[k] ELSE old[k]]

\* part_000:157-161  { ...this.config, ...newConfig,
\*                     filterStages: newConfig.filterStages || this.config.filterStages }
\* (a filterStages list that is given is an array, hence truthy)
MergeConfig(old, newConfig) ==
    [k \in DOMAIN old \cup DOMAIN newConfig |->
        IF k \in DOMAIN newConfig THEN newConfig[k] ELSE old[k]]

\* part_000:36-38, 128-135  one peaking filter per configured stage
CreateFilters(stages) == [i \in 1..Len(stages) |-> stages[i]]

\* part_000:164-173  retune the filter nodes that exist
RetuneFilters(nodeFilters, stages) ==
    [i \in 1..Len(nodeFilters) |->
        IF i <= Len(stages) THEN stages[i] ELSE nodeFilters[i]]

\* part_000:26-52  the nodes initialize stores in this.nodes
NodeNames ==
    {"source", "analyzer", "predictor", "filters", "compressor", "outputGain"}

\* A node of the audio graph; the filter nodes are told apart by position.
Node(name) == [node |-> name, index |-> 0]

FilterNode(i) == [node |-> "filter", index |-> i]

FilterNodes(filterNodes) == [i \in 1..Len(filterNodes) |-> FilterNode(i)]

\* App.jsx:129-132  the graph start connects, upstream first
LLChain ==
    << Node("source"), Node("analyzer"), Node("processor"), Node("gain") >>

\* part_001:94-97
DelayChain ==
    << Node("source"), Node("delay"), Node("processor"), Node("gain") >>

\* part_000:326-335  source -> processor -> each filter in turn -> gain
CarChain(filterNodes) ==
    << Node("source"), Node("processor") >> \o FilterNodes(filterNodes)
        \o << Node("gain") >>

\* App.jsx:145-149  the calls of stopNoiseCancellation, in order; the last is
\* audioContextRef.current.close()
LLStopOrder ==
    << Node("gain"), Node("processor"), Node("analyzer"), Node("source"),
       Node("context") >>

\* part_001:111-115
DelayStopOrder ==
    << Node("gain"), Node("processor"), Node("delay"), Node("source"),
       Node("context") >>

\* part_000:353-357  filtersRef.current.forEach visits the filters from the
\* first to the last
CarStopOrder(filterNodes) ==
    << Node("gain") >> \o FilterNodes(filterNodes)
        \o << Node("processor"), Node("source"), Node("context") >>

\* part_000:26-51  the keys of this.nodes in the order initialize assigns
\* them, which is the order Object.values visits them in
NodeOrder ==
    << "source", "analyzer", "predictor", "filters", "compressor",
       "outputGain" >>

\* part_000:185  typeof node.disconnect === 'function': nodes.filters is an
\* array of nodes and has no disconnect method of its own
HasDisconnect(name) == name # "filters"

\* part_000:184-188  the nodes dispose calls disconnect() on, in order
Disconnected(held) ==
    LET called == SelectSeq(NodeOrder,
                            LAMBDA n : n \in held /\ HasDisconnect(n))
    IN  [i \in 1..Len(called) |-> Node(called[i])]

\* The configuration updates a caller makes: a pattern longer than a frame,
\* the default pattern length again, a single retuned filter stage.
NewConfigs ==
    { [patternLength |-> NP_BUFFER_SIZE + 1],
      [patternLength |-> DefaultPatternLength],
      [filterStages |-> << [frequency |-> 60, Q |-> 10, gain |-> -6] >>] }

----------------------------------------------------------------------------
(* Initial state: the component is mounted / the NoiseProcessor is         *)
(* constructed, nothing is started.                                        *)

Variants == {"lowLatency", "noiseProcessor", "delay", "carOptimized"}

Init ==
    /\ variant \in Variants
    /\ isListening = FALSE
    /\ isProcessing = FALSE
    /\ error = ""
    /\ audioContextRef = "null"
    /\ connected = FALSE
    /\ nodes = {}
    /\ filters = << >>
    /\ config = IF variant = "noiseProcessor" THEN DefaultConfig ELSE NoConfig
    /\ pastPatterns = << >>
    /\ path = "none"
    /\ matched = << >>
    /\ prediction = << >>
    /\ output = << >>
    /\ log = << >>
    /\ connectionType = "bluetooth"
    /\ delayTime = 0
    /\ latency = 0
    /\ delayBuffer = ZeroBuffer
    /\ delayWritePtr = 0
    /\ delayReadPtr = 0
    /\ written = << >>
    /\ readOut = << >>
    /\ engineBuffer = ZeroRing
    /\ tireBuffer = ZeroRing
    /\ windBuffer = ZeroRing
    /\ bufferIndex = 0
    /\ energy = ZeroEnergy
    /\ pending = 0
    /\ orphans = 0
    /\ sessionFrames = 0
    /\ teardown = << >>

\* App.jsx:138, part_001:104 and part_000:346  the message of the catch block
MicError == "Error accessing microphone. Please ensure microphone permissions are granted."

----------------------------------------------------------------------------
(* Low-latency variant, App.jsx.                                           *)

\* App.jsx:95-136  startNoiseCancellation, getUserMedia resolved
LLStart ==
    /\ variant = "lowLatency"
    /\ ~isListening
    /\ audioContextRef' = "ctx"
    /\ connected' = TRUE
    /\ isListening' = TRUE
    /\ isProcessing' = TRUE
    /\ error' = ""
    /\ sessionFrames' = 0
    /\ teardown' = << >>
    /\ UNCHANGED << variant, carVars, pending, orphans, nodes, filters, config,
                    predVars, delayVars >>

\* App.jsx:95-97, 137-140  startNoiseCancellation, getUserMedia rejected
LLStartFail ==
    /\ variant = "lowLatency"
    /\ ~isListening
    /\ error' = MicError
    /\ UNCHANGED << variant, graphVars,
                    carVars, asyncVars, isListening, isProcessing,
                    audioContextRef, connected, nodes, filters, config,
                    predVars, delayVars >>

\* App.jsx:143-157  stopNoiseCancellation
LLStop ==
    /\ variant = "lowLatency"
    /\ isListening
    /\ IF audioContextRef # "null"
       THEN /\ teardown' = LLStopOrder
            /\ connected' = FALSE
            /\ audioContextRef' = "null"
            /\ pastPatterns' = << >>
            /\ log' = << >>
            /\ path' = "none"
            /\ matched' = << >>
            /\ prediction' = << >>
            /\ output' = << >>
       ELSE UNCHANGED << teardown, connected, audioContextRef, predVars >>
    /\ isListening' = FALSE
    /\ isProcessing' = FALSE
    /\ UNCHANGED << variant, carVars, asyncVars, error, nodes, filters,
                    config, delayVars >>

\* App.jsx:35-56  the body of processor.onaudioprocess: every processor
\* created by createPredictiveProcessor works on the one pastPatternsRef
LLOnAudioProcess(inputData) ==
    /\ LET hist == PushShift(pastPatterns, inputData, PREDICTION_BUFFER_SIZE)
           p    == predictNextPattern(hist, inputData)
       IN  /\ pastPatterns' = hist
           /\ path' = p.path
           /\ matched' = p.matched
           /\ prediction' = p.frame
           /\ output' = Blend(inputData, p.frame)
    /\ log' = Append(log, inputData)

\* App.jsx:35-56  processor.onaudioprocess of the processor the refs hold
LLCallback(inputData) ==
    /\ variant = "lowLatency"
    /\ connected
    /\ LLOnAudioProcess(inputData)
    /\ sessionFrames' = sessionFrames + 1
    /\ UNCHANGED << variant, graphVars,
                    carVars, pending, orphans, uiVars, connected,
                    nodes, filters, config, delayVars >>

\* App.jsx:95-97  a click on Start: startNoiseCancellation runs up to its
\* await; isListening stays false, so the button still reads Start
LLClickStart ==
    /\ variant = "lowLatency"
    /\ ~isListening
    /\ pending' = pending + 1
    /\ UNCHANGED << variant, graphVars, carVars, orphans, sessionFrames, uiVars,
                    connected, nodes, filters, config, predVars, delayVars >>

\* App.jsx:106-136  getUserMedia resolved: the rest of the try block.  The
\* refs are overwritten; a processor they held stays connected in its own
\* context, which nothing closes any more
LLResolve ==
    /\ variant = "lowLatency"
    /\ pending > 0
    /\ pending' = pending - 1
    /\ orphans' = IF connected THEN orphans + 1 ELSE orphans
    /\ audioContextRef' = "ctx"
    /\ connected' = TRUE
    /\ isListening' = TRUE
    /\ isProcessing' = TRUE
    /\ error' = ""
    /\ sessionFrames' = IF isListening THEN sessionFrames ELSE 0
    /\ teardown' = << >>
    /\ UNCHANGED << variant, carVars, nodes, filters, config, predVars,
                    delayVars >>

\* App.jsx:137-140  getUserMedia rejected: the catch block
LLReject ==
    /\ variant = "lowLatency"
    /\ pending > 0
    /\ pending' = pending - 1
    /\ error' = MicError
    /\ UNCHANGED << variant, graphVars,
                    carVars, orphans, sessionFrames, isListening,
                    isProcessing, audioContextRef, connected, nodes, filters,
                    config, predVars, delayVars >>

\* App.jsx:35-56  processor.onaudioprocess of a processor left connected
LLOrphanCallback(inputData) ==
    /\ variant = "lowLatency"
    /\ orphans > 0
    /\ LLOnAudioProcess(inputData)
    /\ sessionFrames' = sessionFrames + 1
    /\ UNCHANGED << variant, graphVars,
                    carVars, pending, orphans, uiVars, connected,
                    nodes, filters, config, delayVars >>

----------------------------------------------------------------------------
(* NoiseProcessor, part_000:1-193.                                         *)

\* part_000:23-57  initialize
NPInitialize ==
    /\ variant = "noiseProcessor"
    /\ nodes = {}
    /\ nodes' = NodeNames
    /\ filters' = CreateFilters(config.filterStages)
    /\ connected' = TRUE
    /\ sessionFrames' = 0
    /\ teardown' = << >>
    /\ UNCHANGED << variant, carVars, pending, orphans, uiVars, config,
                    predVars, delayVars >>

\* part_000:67-82  processor.onaudioprocess
NPCallback(inputData) ==
    /\ variant = "noiseProcessor"
    /\ connected
    /\ LET hist == PushShift(pastPatterns, inputData,
                             config.predictionBufferSize)
           p    == NP_predictNextPattern(hist, inputData, config.patternLength)
       IN  /\ pastPatterns' = hist
           /\ path' = p.path
           /\ matched' = p.matched
           /\ prediction' = p.frame
           /\ IF p.path = "threw"
              THEN output' \in HandedOut(inputData, output)
              ELSE output' = Playback(inputData, p.frame)
    /\ log' = Append(log, inputData)
    /\ sessionFrames' = sessionFrames + 1
    /\ UNCHANGED << variant, graphVars,
                    carVars, pending, orphans, uiVars, connected,
                    nodes, filters, config, delayVars >>

\* part_000:155-174  updateConfig
NPUpdateConfig(newConfig) ==
    /\ variant = "noiseProcessor"
    /\ config' = MergeConfig(config, newConfig)
    /\ filters' = IF "filters" \in nodes
                  THEN RetuneFilters(filters, config'.filterStages)
                  ELSE filters
    /\ UNCHANGED << variant, graphVars,
                    carVars, asyncVars, uiVars, connected, nodes,
                    predVars, delayVars >>

\* part_000:182-192  dispose
NPDispose ==
    /\ variant = "noiseProcessor"
    /\ nodes # {}
    /\ teardown' = Disconnected(nodes)
    /\ connected' = FALSE
    /\ pastPatterns' = << >>
    /\ log' = << >>
    /\ path' = "none"
    /\ matched' = << >>
    /\ prediction' = << >>
    /\ output' = << >>
    /\ nodes' = {}
    /\ filters' = << >>
    /\ UNCHANGED << variant, carVars, asyncVars, uiVars, config, delayVars >>

----------------------------------------------------------------------------
(* Delay variant, part_001.                                                *)

\* part_001:131, 140  the Bluetooth / Wired buttons
SetConnectionType(type) ==
    /\ variant = "delay"
    /\ connectionType' = type
    /\ UNCHANGED << variant, graphVars,
                    carVars, asyncVars, uiVars, connected, nodes,
                    filters, config, predVars, delayTime, latency,
                    delayBuffer, delayWritePtr, delayReadPtr, written,
                    readOut >>

\* part_001:63-101  startNoiseCancellation, getUserMedia resolved; the
\* processor closure starts with a zeroed delay line and both indices 0
DelayStart ==
    /\ variant = "delay"
    /\ ~isListening
    /\ audioContextRef' = "ctx"
    /\ connected' = TRUE
    /\ delayBuffer' = ZeroBuffer
    /\ delayWritePtr' = 0
    /\ delayReadPtr' = 0
    /\ written' = << >>
    /\ readOut' = << >>
    /\ output' = << >>
    /\ delayTime' = DelayTimeFor(connectionType)
    /\ isListening' = TRUE
    /\ isProcessing' = TRUE
    /\ error' = ""
    /\ teardown' = << >>
    /\ UNCHANGED << variant, carVars, asyncVars, nodes, filters, config,
                    pastPatterns, path, matched, prediction, log,
                    connectionType, latency >>

\* Mutation of DelayStartFail: the flags are set after the try statement,
\* so a rejected getUserMedia sets them too.
DelayStartFailListening ==
    /\ variant = "delay"
    /\ ~isListening
    /\ error' = MicError
    /\ isListening' = TRUE
    /\ isProcessing' = TRUE
    /\ UNCHANGED << variant, graphVars,
                    carVars, asyncVars, audioContextRef, connected,
                    nodes, filters, config, predVars, delayVars >>

\* part_001:63-74, 103-106  startNoiseCancellation, getUserMedia rejected
DelayStartFail ==
    /\ variant = "delay"
    /\ ~isListening
    /\ error' = MicError
    /\ UNCHANGED << variant, graphVars,
                    carVars, asyncVars, isListening, isProcessing,
                    audioContextRef, connected, nodes, filters, config,
                    predVars, delayVars >>

\* part_001:109-120  stopNoiseCancellation
DelayStop ==
    /\ variant = "delay"
    /\ isListening
    /\ IF audioContextRef # "null"
       THEN /\ teardown' = DelayStopOrder
            /\ connected' = FALSE
            /\ audioContextRef' = "null"
       ELSE UNCHANGED << teardown, connected, audioContextRef >>
    /\ isListening' = FALSE
    /\ isProcessing' = FALSE
    /\ UNCHANGED << variant, carVars, asyncVars, error, nodes, filters,
                    config, predVars, delayVars >>

\* part_001:37-58  processor.onaudioprocess
DelayCallback(input, outputLatency) ==
    /\ variant = "delay"
    /\ connected
    /\ LET w == WriteFrom(delayBuffer, delayWritePtr, input, 0)
           r == ReadFrom(w.buf, delayReadPtr, Len(input))
       IN  /\ delayBuffer' = w.buf
           /\ delayWritePtr' = w.ptr
           /\ delayReadPtr' = r.ptr
           /\ output' = Invert(r.samples)
           /\ readOut' = readOut \o r.samples
    /\ written' = written \o input
    /\ latency' = IF audioContextRef # "null" /\ outputLatency # 0
                  THEN outputLatency ELSE latency
    /\ UNCHANGED << variant, graphVars,
                    carVars, asyncVars, uiVars, connected, nodes,
                    filters, config, pastPatterns, path, matched, prediction,
                    log, connectionType, delayTime >>

----------------------------------------------------------------------------
(* Car-optimized variant, part_000:194-431.                                *)

\* part_000:291-343  startNoiseCancellation, getUserMedia and resume
\* resolved; the processor closure starts with zeroed rings and index 0
CarStart ==
    /\ variant = "carOptimized"
    /\ ~isListening
    /\ audioContextRef' = "ctx"
    /\ filters' = CarFilters
    /\ connected' = TRUE
    /\ engineBuffer' = ZeroRing
    /\ tireBuffer' = ZeroRing
    /\ windBuffer' = ZeroRing
    /\ bufferIndex' = 0
    /\ energy' = ZeroEnergy
    /\ log' = << >>
    /\ output' = << >>
    /\ sessionFrames' = 0
    /\ isListening' = TRUE
    /\ isProcessing' = TRUE
    /\ error' = ""
    /\ teardown' = << >>
    /\ UNCHANGED << variant, nodes, config, pastPatterns, path, matched,
                    prediction, delayVars, pending, orphans >>

\* part_000:291-302, 345-348  startNoiseCancellation, getUserMedia rejected
CarStartFail ==
    /\ variant = "carOptimized"
    /\ ~isListening
    /\ error' = MicError
    /\ UNCHANGED << variant, graphVars,
                    carVars, asyncVars, isListening, isProcessing,
                    audioContextRef, connected, nodes, filters, config,
                    predVars, delayVars >>

\* part_000:351-362  stopNoiseCancellation; filtersRef.current is kept
CarStop ==
    /\ variant = "carOptimized"
    /\ isListening
    /\ IF audioContextRef # "null"
       THEN /\ teardown' = CarStopOrder(filters)
            /\ connected' = FALSE
            /\ audioContextRef' = "null"
       ELSE UNCHANGED << teardown, connected, audioContextRef >>
    /\ isListening' = FALSE
    /\ isProcessing' = FALSE
    /\ UNCHANGED << variant, carVars, asyncVars, error, nodes, filters,
                    config, predVars, delayVars >>

\* part_000:236-277  processor.onaudioprocess
CarCallback(input) ==
    /\ variant = "carOptimized"
    /\ connected
    /\ LET engine == StoreFrom(engineBuffer, bufferIndex, input, 0)
           tire   == StoreFrom(tireBuffer, bufferIndex, input, 0)
           wind   == StoreFrom(windBuffer, bufferIndex, input, 0)
           e      == [engine |-> BandEnergy(engine.ring, 0),
                      tire   |-> BandEnergy(tire.ring, 0),
                      wind   |-> BandEnergy(wind.ring, 0)]
       IN  /\ engineBuffer' = engine.ring
           /\ tireBuffer' = tire.ring
           /\ windBuffer' = wind.ring
           /\ bufferIndex' = engine.index
           /\ energy' = e
           /\ filters' = AdaptGains(filters, e)
    /\ output' = Invert(input)
    /\ log' = Append(log, input)
    /\ sessionFrames' = sessionFrames + 1
    /\ UNCHANGED << variant, graphVars,
                    uiVars, connected, nodes, config, pastPatterns,
                    path, matched, prediction, delayVars, pending, orphans >>

----------------------------------------------------------------------------
(* Specifications.                                                         *)

\* The capture side feeds at most maxFrames frames to a predictive processor
\* between two clearings of its history, and at most MaxDelayFrames to a
\* delay processor.
Run(maxFrames) ==
    \/ LLStart
    \/ LLStartFail
    \/ LLStop
    \/ \E f \in Frames(BUFFER_SIZE, PATTERN_LENGTH) :
           Len(log) < maxFrames /\ LLCallback(f)
    \/ NPInitialize
    \/ \E f \in Frames(NP_BUFFER_SIZE, DefaultPatternLength) :
           Len(log) < maxFrames /\ NPCallback(f)
    \/ NPDispose
    \/ \E t \in ConnectionTypes : SetConnectionType(t)
    \/ DelayStart
    \/ DelayStartFail
    \/ DelayStop
    \/ \E f \in DelayFrames, ol \in OutputLatencies :
           /\ Len(written) < MaxDelayFrames * DELAY_BUFFER_SIZE
           /\ DelayCallback(f, ol)
    \/ CarStart
    \/ CarStartFail
    \/ CarStop
    \/ \E f \in CarFrames(CAR_BUFFER_SIZE) :
           Len(log) < MaxCarFrames /\ CarCallback(f)

Next == Run(MaxFrames)

\* The programs as shipped: the NoiseProcessor keeps its constructor's config.
Spec == Init /\ [][Next]_vars

\* Frames fed to one processor in the runs that reconfigure it.
MaxConfigFrames == 4

\* The same programs, with callers that reconfigure the NoiseProcessor at run
\* time, over shorter sessions.
NextConfig ==
    \/ Run(MaxConfigFrames)
    \/ \E c \in NewConfigs : NPUpdateConfig(c)

SpecConfig == Init /\ [][NextConfig]_vars

\* Updates a careless caller makes: a negative pattern length, a filter
\* stage with negative frequency and Q, an option the class does not know,
\* and more filter stages than initialize created filters.
OddConfigs ==
    { [patternLength |-> -1],
      [filterStages |-> << [frequency |-> -60, Q |-> -10, gain |-> -6] >>],
      [unknownOption |-> 1],
      [filterStages |-> DefaultFilterStages
                          \o << [frequency |-> 300, Q |-> 10, gain |-> -4] >>] }

\* Frames fed to one processor in the runs with such callers.
MaxOddFrames == 3

NextAnyConfig ==
    \/ Run(MaxOddFrames)
    \/ \E c \in NewConfigs \cup OddConfigs : NPUpdateConfig(c)

\* The same programs, with callers that pass updateConfig anything.
SpecAnyConfig == Init /\ [][NextAnyConfig]_vars

\* The capacity a caller lowers predictionBufferSize to.
LoweredCapacity == 2

\* Frames fed to one processor in the runs with such a caller.
MaxResizeFrames == 4

\* part_000:155-161  updateConfig called with a smaller history capacity, or
\* with the shipped one again
ResizeConfigs ==
    { [predictionBufferSize |-> LoweredCapacity],
      [predictionBufferSize |-> DefaultPredictionBufferSize] }

NextResize ==
    \/ Run(MaxResizeFrames)
    \/ \E c \in ResizeConfigs : NPUpdateConfig(c)

\* The same programs, with a caller that resizes the history at run time.
SpecResize == Init /\ [][NextResize]_vars

\* Start requests the low-latency component has outstanding at most, and
\* processors it has orphaned before Start is clicked only once at a time.
MaxPending == 2
MaxOrphans == 1
\* Frames fed between two clearings of the history in the runs below.
MaxAsyncFrames == 2

InitAsync == Init /\ variant = "lowLatency"

\* The low-latency component with startNoiseCancellation split at its
\* await: clicks, resolutions and rejections of getUserMedia, frame
\* callbacks and Stop clicks interleave freely.
NextAsync ==
    \/ /\ pending < MaxPending
       /\ orphans < MaxOrphans \/ (pending = 0 /\ ~connected)
       /\ LLClickStart
    \/ LLResolve
    \/ LLReject
    \/ LLStop
    \/ \E f \in Frames(BUFFER_SIZE, PATTERN_LENGTH) :
           Len(log) < MaxAsyncFrames /\ LLCallback(f)
    \/ \E f \in Frames(BUFFER_SIZE, PATTERN_LENGTH) :
           Len(log) < MaxAsyncFrames /\ LLOrphanCallback(f)

SpecAsync == InitAsync /\ [][NextAsync]_vars

----------------------------------------------------------------------------
(* Vocabulary of the properties.  Nothing below is used by the actions.    *)

Predictive == variant \in {"lowLatency", "noiseProcessor"}

\* The configured capacity C, frame length N and pattern length L.
Capacity ==
    IF variant = "lowLatency" THEN PREDICTION_BUFFER_SIZE
    ELSE config.predictionBufferSize
FrameLength ==
    IF variant = "lowLatency" THEN BUFFER_SIZE ELSE NP_BUFFER_SIZE
ConfiguredPatternLength(cfg) ==
    IF variant = "lowLatency" THEN PATTERN_LENGTH ELSE cfg.patternLength
\* Number of best matches the variant blends.
BestMatches == IF variant = "lowLatency" THEN 1 ELSE TopK
\* Every how many samples the variant compares.
CompareStride == IF variant = "lowLatency" THEN STRIDE ELSE 1

Last(seq) == seq[Len(seq)]
LastOf(seq, m) == SubSeq(seq, Len(seq) - m + 1, Len(seq))
Range(seq) == { seq[k] : k \in 1..Len(seq) }

\* The last l samples of a frame (all of it when l exceeds its length).
TrailingWindow(frame, l) ==
    LET w == Min(l, Len(frame))
    IN  [i \in 1..w |-> frame[Len(frame) - w + i]]

\* The similarity score: the sum, over every stride-th position of the
\* window, of the absolute difference between the candidate's leading
\* window and the current frame's trailing window.
Score(candidate, current, l, stride) ==
    LET w == Min(l, Len(current))
        sum[j \in 0..w] ==
            IF j = w THEN 0
            ELSE (IF j % stride = 0
                  THEN Abs(candidate[j + 1] - current[Len(current) - w + j + 1])
                  ELSE 0) + sum[j + 1]
    IN  sum[0]

\* The history indices predict searches: all of them in NoiseProcessor, the
\* last min(8, length) in the low-latency variant.
Scope(hist) ==
    IF variant = "lowLatency"
    THEN (Len(hist) - Min(RECENT_WINDOW, Len(hist)))..(Len(hist) - 1)
    ELSE 0..(Len(hist) - 1)

\* Rank of history index a among the selected indices m (0 when unselected).
Rank(m, a) == IF \E k \in 1..Len(m) : m[k] = a
              THEN CHOOSE k \in 1..Len(m) : m[k] = a ELSE 0

\* A step in which a frame callback of a predictive variant completed.
CallbackStep == Predictive /\ log' # log /\ log' # << >>

----------------------------------------------------------------------------
(* C1: with a fixed capacity C the pattern history holds at most C frames  *)
(* after every frame callback, in both predictive variants.                *)
C1_HistoryBounded == Predictive => Len(pastPatterns) <= Capacity

\* More callbacks than the capacity have completed and the history is full.
C1_Witness ==
    /\ variant = "noiseProcessor"
    /\ Len(log) > Capacity
    /\ Len(pastPatterns) = Capacity

(* C2: after n callbacks the history is exactly the last min(n, C) input   *)
(* frames in arrival order, oldest first.                                  *)
C2_HistoryIsLastInputs ==
    Predictive => pastPatterns = LastOf(log, Min(Len(log), Capacity))

\* After C+1 appends the first frame is gone and the newest is present.
C2_Witness ==
    /\ variant = "lowLatency"
    /\ Len(log) = Capacity + 1
    /\ log[1] \notin Range(pastPatterns)
    /\ Last(pastPatterns) = Last(log)

(* C3 as stated: on the identity fallback predict returns the current      *)
(* frame's trailing window, its last L samples.                            *)
C3_FallbackReturnsTrailingWindow ==
    (Predictive /\ path = "identity") =>
        prediction = TrailingWindow(Last(log), ConfiguredPatternLength(config))

(* C3 as amended: predict takes the identity fallback exactly when the     *)
(* history holds fewer than 2 frames, and then returns the current frame   *)
(* itself, all N samples of it.                                            *)
C3_FallbackReturnsCurrentFrame ==
    (Predictive /\ log # << >>) =>
        /\ (path = "identity") <=> (Len(pastPatterns) < 2)
        /\ path = "identity" => prediction = Last(log)

\* The fallback was taken and what it returned is longer than the window.
C3_Witness ==
    /\ variant = "noiseProcessor"
    /\ path = "identity"
    /\ Len(pastPatterns) = 1
    /\ prediction = Last(log)
    /\ prediction # TrailingWindow(Last(log), ConfiguredPatternLength(config))

(* C4 as stated: on every path and in both variants the frame predict      *)
(* returns has exactly L samples.                                          *)
C4_PredictionHasPatternLength ==
    [][CallbackStep =>
          Len(prediction') = ConfiguredPatternLength(config')]_vars

(* C4 as amended: the frame predict returns has L = config.patternLength   *)
(* samples only on NoiseProcessor's matched path; on the identity fallback *)
(* of both variants and on the low-latency variant's matched path it has   *)
(* the frame length N.                                                     *)
C4_PredictionLength ==
    [][CallbackStep =>
          Len(prediction') =
              IF variant = "noiseProcessor" /\ path' = "matched"
              THEN config'.patternLength ELSE FrameLength]_vars

\* A matched prediction of the low-latency variant: N samples, not L.
C4_Witness ==
    /\ variant = "lowLatency"
    /\ path = "matched"
    /\ Len(prediction) = BUFFER_SIZE
    /\ Len(prediction) # PATTERN_LENGTH

(* C5: with 2 or more history entries predict selects the candidates of    *)
(* smallest similarity score: NoiseProcessor min(3, length) distinct       *)
(* indices such that no unselected frame scores below a selected one; the  *)
(* low-latency variant one index among the last min(8, length) whose       *)
(* stride score is the minimum among them.                                 *)
C5_SelectsSmallestScores ==
    (Predictive /\ path = "matched") =>
        LET n == Len(pastPatterns)
            sc(a) == Score(pastPatterns[a + 1], Last(log),
                           ConfiguredPatternLength(config), CompareStride)
        IN  /\ n >= 2
            /\ Len(matched) = Min(BestMatches, n)
            /\ \A k \in 1..Len(matched) : matched[k] \in Scope(pastPatterns)
            /\ \A k, j \in 1..Len(matched) : k # j => matched[k] # matched[j]
            /\ \A u \in Scope(pastPatterns) \ Range(matched) :
                   \A k \in 1..Len(matched) : sc(u) >= sc(matched[k])

\* NoiseProcessor left a frame unselected that scores strictly worse than
\* each of its three selected ones.
C5_Witness ==
    /\ variant = "noiseProcessor"
    /\ path = "matched"
    /\ Len(matched) = TopK
    /\ \E u \in Scope(pastPatterns) \ Range(matched) :
           \A k \in 1..Len(matched) :
               Score(pastPatterns[u + 1], Last(log), config.patternLength, 1)
                 > Score(pastPatterns[matched[k] + 1], Last(log),
                         config.patternLength, 1)

(* C6 as stated: among candidates of equal score predict prefers the       *)
(* newest: the low-latency best match is the newest of the tied minima,    *)
(* and in NoiseProcessor a tied newer candidate is selected before (with   *)
(* the larger weight than) an older one.                                   *)
C6_TiesPreferNewest ==
    (Predictive /\ path = "matched") =>
        LET sc(a) == Score(pastPatterns[a + 1], Last(log),
                           ConfiguredPatternLength(config), CompareStride)
        IN  \A a, b \in Scope(pastPatterns) :
                (a < b /\ sc(a) = sc(b) /\ Rank(matched, a) # 0) =>
                    /\ Rank(matched, b) # 0
                    /\ Rank(matched, b) < Rank(matched, a)

(* C6 as amended: among candidates of equal score predict prefers the      *)
(* oldest (smallest history index): the low-latency best match is the      *)
(* oldest of the tied minima, and in NoiseProcessor a tied older candidate *)
(* is selected before (with the larger weight than) a newer one.           *)
C6_TiesPreferOldest ==
    (Predictive /\ path = "matched") =>
        LET sc(a) == Score(pastPatterns[a + 1], Last(log),
                           ConfiguredPatternLength(config), CompareStride)
        IN  \A a, b \in Scope(pastPatterns) :
                (a < b /\ sc(a) = sc(b) /\ Rank(matched, b) # 0) =>
                    /\ Rank(matched, a) # 0
                    /\ Rank(matched, a) < Rank(matched, b)

\* The low-latency best match ties with a newer frame of other content.
C6_Witness ==
    /\ variant = "lowLatency"
    /\ path = "matched"
    /\ \E b \in Scope(pastPatterns) :
           /\ matched[1] < b
           /\ pastPatterns[b + 1] # pastPatterns[matched[1] + 1]
           /\ Score(pastPatterns[b + 1], Last(log), PATTERN_LENGTH, STRIDE)
                = Score(pastPatterns[matched[1] + 1], Last(log),
                        PATTERN_LENGTH, STRIDE)

\* The weighted blend over history hist, selected indices m (best first),
\* pattern length l and current frame: every selected index ranks no worse
\* than the next, and sample i of the prediction is 0.5, 0.3 and 0.2 times
\* sample i of the first, second and third selected frame, a sample or a
\* frame that is missing counting 0.
IsWeightedBlend(hist, m, pred, l, current) ==
    LET sc(a) == Score(hist[a + 1], current, l, 1)
        sample(k, i) ==
            IF k <= Len(m) /\ i \in DOMAIN hist[m[k] + 1]
            THEN hist[m[k] + 1][i] ELSE 0
    IN  /\ Len(m) = Min(3, Len(hist))
        /\ \A k \in 1..(Len(m) - 1) : sc(m[k]) <= sc(m[k + 1])
        /\ Len(pred) = l
        /\ \A i \in 1..l :
               10 * pred[i]
                 = 5 * sample(1, i) + 3 * sample(2, i) + 2 * sample(3, i)

(* C7: in NoiseProcessor with 2 or more history entries, prediction[i] is  *)
(* the sum over the selected candidates of predictionWeights[k] times      *)
(* candidate k's sample i, for every i below L; the best match weighs 0.5, *)
(* the next 0.3 and 0.2; a missing sample contributes 0 and with fewer     *)
(* than 3 candidates only the existing ones are weighed.                   *)
C7_PredictionIsWeightedSum ==
    [][(CallbackStep /\ variant = "noiseProcessor" /\ Len(pastPatterns') >= 2)
          => IsWeightedBlend(pastPatterns', matched', prediction',
                             config'.patternLength, Last(log'))]_vars

\* Three candidates were blended over a pattern longer than the frames: the
\* sample past the frames' end is 0 and some sample is a proper blend.
C7_Witness ==
    /\ variant = "noiseProcessor"
    /\ path = "matched"
    /\ Len(matched) = 3
    /\ Len(prediction) = NP_BUFFER_SIZE + 1
    /\ prediction[NP_BUFFER_SIZE + 1] = 0
    /\ \E i \in 1..NP_BUFFER_SIZE : prediction[i] \notin SampleValues

\* The last m frames fed are all the frame F.
Repeated(F, m) ==
    /\ Len(log) >= m
    /\ \A k \in (Len(log) - m + 1)..Len(log) : log[k] = F

\* The prediction equals F on its first L samples.
ConvergedTo(F) ==
    /\ Len(prediction) >= ConfiguredPatternLength(config)
    /\ \A i \in 1..ConfiguredPatternLength(config) : prediction[i] = F[i]

(* C9 as stated: from any reachable history, once the same frame F has     *)
(* been fed in K+2 or more consecutive callbacks (K = 3 in NoiseProcessor, *)
(* 1 in the low-latency variant) the prediction equals F on its first L    *)
(* samples.                                                                *)
C9_RepeatsConverge ==
    (Predictive /\ log # << >> /\ Repeated(Last(log), BestMatches + 2))
        => ConvergedTo(Last(log))

(* C9 as amended: once the same frame F has been fed in K+2 or more        *)
(* consecutive callbacks and every frame predict searches (the whole       *)
(* history in NoiseProcessor, its last min(8, length) entries in the       *)
(* low-latency variant) is a copy of F, the prediction equals F on its     *)
(* first L samples.                                                        *)
C9_RepeatsConvergeOnceScopeIsCopies ==
    (/\ Predictive
     /\ log # << >>
     /\ Repeated(Last(log), BestMatches + 2)
     /\ \A a \in Scope(pastPatterns) : pastPatterns[a + 1] = Last(log))
        => ConvergedTo(Last(log))

\* NoiseProcessor was fed another frame first, then F until the history
\* holds copies of F only.
C9_Witness ==
    /\ variant = "noiseProcessor"
    /\ log # << >>
    /\ log[1] # Last(log)
    /\ Repeated(Last(log), BestMatches + 2)
    /\ \A a \in Scope(pastPatterns) : pastPatterns[a + 1] = Last(log)
    /\ ConvergedTo(Last(log))

\* The samples written to the delay line by the time its k-th read happens:
\* the callback writes its whole frame before it reads.
WrittenBefore(k) ==
    DELAY_BUFFER_SIZE * ((k + DELAY_BUFFER_SIZE - 1) \div DELAY_BUFFER_SIZE)
\* The slot the k-th write or read of a session falls on.
SlotOf(k) == (k - 1) % delayBufferSize
\* The writes that hit the slot of the k-th read before that read.
WritesUnder(k) == { j \in 1..WrittenBefore(k) : SlotOf(j) = SlotOf(k) }
SetMax(S) == CHOOSE x \in S : \A y \in S : y <= x

(* C11: the delay line never reads ahead of what has been written: the     *)
(* samples read never outnumber the samples written, both indices stay in  *)
(* [0, capacity), and every read returns what was last written to its slot *)
(* in this session, 0 (silence) if nothing was.                            *)
C11_NeverReadsAhead ==
    variant = "delay" =>
        /\ Len(readOut) <= Len(written)
        /\ delayWritePtr \in 0..(delayBufferSize - 1)
        /\ delayReadPtr \in 0..(delayBufferSize - 1)
        /\ \A k \in 1..Len(readOut) :
               /\ WrittenBefore(k) <= Len(written)
               /\ readOut[k] = IF WritesUnder(k) = {} THEN 0
                               ELSE written[SetMax(WritesUnder(k))]

\* Both indices have wrapped around the ring and a nonzero sample was read.
C11_Witness ==
    /\ variant = "delay"
    /\ Len(written) > delayBufferSize
    /\ Len(readOut) > delayBufferSize
    /\ delayReadPtr < DELAY_BUFFER_SIZE
    /\ \E k \in 1..Len(readOut) : k > delayBufferSize /\ readOut[k] # 0

\* A frame callback of the car-optimized processor has completed.
CarRan == variant = "carOptimized" /\ log # << >>

\* The samples the car-optimized processor keeps of one frame: every
\* DECIMATION-th, starting with the first.
Decimated(frame) ==
    LET kept == { i \in 1..Len(frame) : (i - 1) % DECIMATION = 0 }
        pos[k \in 1..Cardinality(kept)] ==
            CHOOSE i \in kept : Cardinality({ j \in kept : j < i }) = k - 1
    IN  [k \in 1..Cardinality(kept) |-> frame[pos[k]]]

\* The decimated samples of the first m frames fed this session, in order.
DecimatedUpTo(m) ==
    LET cat[n \in 0..m] ==
            IF n = 0 THEN << >> ELSE cat[n - 1] \o Decimated(log[n])
    IN  cat[m]
DecimatedSoFar == DecimatedUpTo(Len(log))

\* The last RING_SIZE decimated samples after m frames (all of them if
\* there are fewer).
RingContentsAfter(m) ==
    LET d == DecimatedUpTo(m)
    IN  SubSeq(d, Max(1, Len(d) - RING_SIZE + 1), Len(d))
RingContents == RingContentsAfter(Len(log))

SumOfSquares(samples) ==
    LET sum[n \in 0..Len(samples)] ==
            IF n = 0 THEN 0 ELSE sum[n - 1] + samples[n] * samples[n]
    IN  sum[Len(samples)]

Bands == {"engine", "tire", "wind"}

(* C12: each band energy of the car-optimized processor is the sum of      *)
(* squares over the band's ring buffer, that is over the last 16 decimated *)
(* input samples: it is never negative, it is 0 when every input sample is *)
(* 0, and it is 16 * A * A once a constant amplitude A has filled the ring *)
(* (one 256-sample frame decimated by 16).                                 *)
C12_EnergyIsSumOfSquares ==
    CarRan =>
        \A b \in Bands :
            /\ energy[b] = SumOfSquares(RingContents)
            /\ energy[b] >= 0
            /\ (\A n \in 1..Len(log) : \A i \in 1..CAR_BUFFER_SIZE :
                    log[n][i] = 0) => energy[b] = 0
            /\ \A a \in CarSampleValues :
                   (/\ Len(RingContents) = RING_SIZE
                    /\ \A k \in 1..RING_SIZE : RingContents[k] = a)
                       => energy[b] = RING_SIZE * a * a

\* A nonzero constant amplitude has filled the ring, after other input.
C12_Witness ==
    /\ CarRan
    /\ Len(DecimatedSoFar) > RING_SIZE
    /\ DecimatedSoFar[1] # 3
    /\ \A k \in 1..RING_SIZE : RingContents[k] = 3
    /\ energy.engine = RING_SIZE * 9
    /\ energy.tire = RING_SIZE * 9
    /\ energy.wind = RING_SIZE * 9

\* The gain of a band whose energy is e (in hundredths) and whose base gain
\* is base: base * 1.2 above the threshold 0.1, base * 0.8 otherwise, in
\* tenths of a dB.
TwoLevelGain(base, e) == IF e > 10 THEN base * 12 ELSE base * 8

(* C13: after every frame callback of the car-optimized processor with at  *)
(* least 3 filters present, each of the first three filter gains is its    *)
(* base gain (-15, -12, -10) times 1.2 if the band's energy is strictly    *)
(* greater than 0.1 and times 0.8 otherwise (an energy equal to the        *)
(* threshold attenuates); the gain follows from the current energy alone,  *)
(* whatever the gain was before.                                           *)
C13_GainsFollowEnergy ==
    (CarRan /\ Len(filters) >= 3) =>
        LET e == SumOfSquares(RingContents)
        IN  /\ filters[1].gain = TwoLevelGain(-15, e)
            /\ filters[2].gain = TwoLevelGain(-12, e)
            /\ filters[3].gain = TwoLevelGain(-10, e)

\* The energy is exactly the threshold and the gains are attenuated, right
\* after a frame that had them boosted.
C13_Witness ==
    /\ CarRan
    /\ Len(log) >= 2
    /\ SumOfSquares(RingContentsAfter(Len(log) - 1)) > 10
    /\ energy.engine = 10
    /\ Len(filters) = 3
    /\ filters[1].gain = -120
    /\ filters[2].gain = -96
    /\ filters[3].gain = -80

\* The pipeline is running (not Idle): the React variants keep the flag
\* isListening, a NoiseProcessor is running while its nodes are connected.
Running == IF variant = "noiseProcessor" THEN connected ELSE isListening

\* A step that takes the pipeline from Idle to running: a start.
SessionStarts == ~Running /\ Running'

\* The first frame callback since the pipeline left Idle.
FirstCallback == sessionFrames = 0 /\ sessionFrames' = 1

(* C14: no state leaks across sessions: after stop (or dispose) followed by *)
(* start (or initialize), the pattern history is empty when the first      *)
(* frame callback of the new session runs, so that callback's predict      *)
(* takes the identity fallback; the delay line and the energy rings of the *)
(* new session start zeroed, with indices 0.                               *)
C14_NoLeakAcrossSessions ==
    [][/\ (Predictive /\ FirstCallback) =>
              (pastPatterns = << >> /\ path' = "identity")
       /\ (variant = "delay" /\ SessionStarts) =>
              /\ delayBuffer' = ZeroBuffer
              /\ delayWritePtr' = 0
              /\ delayReadPtr' = 0
       /\ (variant = "carOptimized" /\ SessionStarts) =>
              /\ engineBuffer' = ZeroRing
              /\ tireBuffer' = ZeroRing
              /\ windBuffer' = ZeroRing
              /\ bufferIndex' = 0]_vars

(* C15: under every interleaving of Start clicks, pending getUserMedia     *)
(* resolutions, frame callbacks and Stop clicks, no frame callback runs    *)
(* and mutates the pattern history while the pipeline is Idle, and no      *)
(* processor of an earlier or overlapping start is connected once stop has *)
(* run.                                                                    *)
C15_NoCallbackWhileIdle ==
    [][/\ (variant = "lowLatency" /\ pastPatterns' # pastPatterns
             /\ pastPatterns' # << >>) => isListening
       /\ (variant = "lowLatency" /\ isListening /\ ~isListening') =>
              (~connected' /\ orphans' = 0)]_vars

\* A start whose setup failed: getUserMedia was rejected.
StartFails ==
    LLStartFail \/ LLReject \/ DelayStartFail \/ CarStartFail

(* C16: a setup failure during start (microphone unavailable or permission *)
(* denied) leaves the pipeline Idle: isListening and isProcessing remain   *)
(* false, a non-empty error message is surfaced, no processor is connected *)
(* and the failure issues no new request (no automatic retry); a later     *)
(* successful start clears the error message.                              *)
C16_FailedStartLeavesIdle ==
    [][/\ (StartFails /\ ~isListening) =>
              /\ ~isListening'
              /\ ~isProcessing'
              /\ error' # ""
              /\ ~connected'
              /\ audioContextRef' = "null"
              /\ pending' <= pending
       /\ (variant # "noiseProcessor" /\ SessionStarts) => error' = ""]_vars

\* A start failed after a session that had run: the pipeline is Idle, with
\* the message shown.
C16_Witness ==
    /\ variant = "delay"
    /\ error # ""
    /\ written # << >>
    /\ ~isListening
    /\ ~isProcessing
    /\ ~connected

\* The updates the callers of updateConfig make.
Updates == NewConfigs \cup OddConfigs

\* The options NoiseProcessor's constructor defines.
Recognized ==
    {"predictionBufferSize", "patternLength", "lookAheadMs", "filterStages"}

\* An update that carries an invalid parameter: a negative pattern length,
\* or a filter stage with a negative frequency or Q.
Invalid(c) ==
    \/ "patternLength" \in DOMAIN c /\ c.patternLength < 0
    \/ /\ "filterStages" \in DOMAIN c
       /\ \E i \in 1..Len(c.filterStages) :
              c.filterStages[i].frequency < 0 \/ c.filterStages[i].Q < 0

(* C17: a configuration update that carries an invalid parameter is        *)
(* rejected by updateConfig: config and every filter node's frequency, Q   *)
(* and gain are left exactly as they were before the call.                 *)
C17_InvalidUpdateRejected ==
    [][\A c \in Updates :
          (Invalid(c) /\ NPUpdateConfig(c)) =>
              (config' = config /\ filters' = filters)]_vars

(* C18: the per-frame callback never throws, for any sequence of           *)
(* updateConfig calls and frames: predict never raises, and no exception   *)
(* leaves onaudioprocess.                                                  *)
C18_CallbackNeverThrows ==
    variant = "noiseProcessor" => path # "threw"

(* C19 as stated: updateConfig has merge semantics: every recognized       *)
(* option omitted from newConfig keeps its prior value, and an             *)
(* unrecognized option is ignored: it does not appear in the resulting     *)
(* config and changes no recognized option or filter node.                 *)
C19_UnrecognizedIgnored ==
    [][\A c \in Updates :
          NPUpdateConfig(c) =>
              /\ \A k \in Recognized \ DOMAIN c : config'[k] = config[k]
              /\ DOMAIN config' \subseteq Recognized
              /\ DOMAIN c \cap Recognized = {} => filters' = filters]_vars

(* C19 as amended: updateConfig has merge semantics: every recognized      *)
(* option omitted from newConfig keeps its prior value; an unrecognized    *)
(* option is copied into the resulting config with its value, and changes  *)
(* no recognized option or filter node.                                    *)
C19_MergeKeepsOmitted ==
    [][\A c \in Updates :
          NPUpdateConfig(c) =>
              /\ \A k \in Recognized \ DOMAIN c :
                     k \in DOMAIN config' /\ config'[k] = config[k]
              /\ \A k \in DOMAIN c \ Recognized :
                     k \in DOMAIN config' /\ config'[k] = c[k]
              /\ DOMAIN c \cap Recognized = {} => filters' = filters]_vars

\* An option the class does not know sits in the config of a processor
\* whose pattern length an earlier update changed and whose filters an
\* earlier update retuned.
C19_Witness ==
    /\ variant = "noiseProcessor"
    /\ "unknownOption" \in DOMAIN config
    /\ config.patternLength # DefaultPatternLength
    /\ config.filterStages # DefaultFilterStages
    /\ config.predictionBufferSize = DefaultPredictionBufferSize
    /\ config.lookAheadMs = 50
    /\ filters # << >>

(* C20: after any sequence of initialize and updateConfig calls the live   *)
(* filter bank matches the configuration stage for stage: there are as     *)
(* many filter nodes as config.filterStages, and filter i has stage i's    *)
(* frequency, Q and gain, also after an update whose filterStages list is  *)
(* shorter or longer than the existing one.                                *)
C20_FiltersMatchConfig ==
    (variant = "noiseProcessor" /\ "filters" \in nodes) =>
        /\ Len(filters) = Len(config.filterStages)
        /\ \A i \in 1..Len(filters) :
               /\ filters[i].frequency = config.filterStages[i].frequency
               /\ filters[i].Q = config.filterStages[i].Q
               /\ filters[i].gain = config.filterStages[i].gain

(* C21: the history bound survives reconfiguration at run time: once      *)
(* updateConfig has lowered predictionBufferSize to C' while the history    *)
(* held more than C' frames, the history holds at most C' frames after the  *)
(* next frame callback and after every later one.  Stated of every frame    *)
(* callback of NoiseProcessor: it leaves at most as many frames as the      *)
(* capacity configured when it runs.                                        *)
C21_LoweredBoundRestored ==
    [][(variant = "noiseProcessor" /\ CallbackStep)
          => Len(pastPatterns') <= config'.predictionBufferSize]_vars

\* The graph the variant's start connected, upstream first.
GraphChain ==
    CASE variant = "lowLatency" -> LLChain
      [] variant = "delay" -> DelayChain
      [] variant = "carOptimized" -> CarChain(filters)
      [] OTHER -> << >>

\* Where a node stands in a sequence of nodes (0 when it is absent).
Position(seq, x) ==
    IF \E k \in 1..Len(seq) : seq[k] = x
    THEN CHOOSE k \in 1..Len(seq) : seq[k] = x ELSE 0

\* A component variant has stopped a session and torn its graph down.
Stopped == variant # "noiseProcessor" /\ teardown # << >>

(* C22: stop disconnects the audio graph in one direction in every        *)
(* variant: each node is disconnected only after every node downstream of  *)
(* it has been disconnected (output gain, then the filters from last to     *)
(* first, then the processor, then analyzer or delay, then the source),     *)
(* and the context is closed last.                                         *)
C22_StopDisconnectsDownstreamFirst ==
    Stopped =>
        /\ \A a, b \in 1..Len(GraphChain) :
               a < b =>
                   /\ Position(teardown, GraphChain[a]) > 0
                   /\ Position(teardown, GraphChain[b]) > 0
                   /\ Position(teardown, GraphChain[b])
                          < Position(teardown, GraphChain[a])
        /\ Last(teardown) = Node("context")

\* A step in which NoiseProcessor.dispose runs.
Disposes == variant = "noiseProcessor" /\ nodes # {} /\ nodes' = {}

\* The audio nodes a NoiseProcessor holds: one per name, and the filter
\* nodes in place of the array that holds them.
AudioNodes(held, filterNodes) ==
    { Node(n) : n \in held \ {"filters"} }
        \cup { FilterNode(i) : i \in 1..Len(filterNodes) }

(* C23: NoiseProcessor.dispose disconnects and cleans up all nodes: when   *)
(* dispose() returns, every node that initialize created and connected     *)
(* (source, analyzer, predictor, each filter node, compressor, output      *)
(* gain) has had disconnect() called on it, the history is empty and nodes *)
(* is empty.                                                               *)
C23_DisposeDisconnectsEveryNode ==
    [][Disposes =>
          /\ AudioNodes(nodes, filters) \subseteq Range(teardown')
          /\ pastPatterns' = << >>
          /\ nodes' = {}]_vars

\* Sample i of a predicted frame, 0 where the frame has no such sample.
PredictedAt(pred, i) == IF i \in 1..Len(pred) THEN pred[i] ELSE 0

(* C24: every output frame has the length N of its input frame and        *)
(* follows the variant's mixing law at every index: in the low-latency     *)
(* variant output[i] = 0.7 * (-input[i]) + 0.3 * prediction[i], in         *)
(* NoiseProcessor output[i] = prediction[i]; an index at which the         *)
(* predicted frame has no sample contributes prediction 0, so that in      *)
(* NoiseProcessor, once the history has 2 or more frames, output[i] = 0    *)
(* at every index from patternLength on.                                   *)
C24_OutputFollowsMixingLaw ==
    [][CallbackStep =>
          LET inputData == Last(log')
          IN  /\ Len(output') = Len(inputData)
              /\ \A i \in 1..Len(inputData) :
                     IF variant = "lowLatency"
                     THEN 10 * output'[i]
                              = 7 * (-inputData[i])
                                    + 3 * PredictedAt(prediction', i)
                     ELSE /\ output'[i] = PredictedAt(prediction', i)
                          /\ (Len(pastPatterns') >= 2
                                  /\ i > config'.patternLength)
                                 => output'[i] = 0]_vars

\* A NoiseProcessor callback predicted fewer samples than the frame has and
\* played them back, silence after them.
C24_Witness ==
    /\ variant = "noiseProcessor"
    /\ Len(pastPatterns) >= 2
    /\ Len(prediction) < Len(output)
    /\ \E i \in 1..Len(prediction) : output[i] # 0
    /\ \A i \in (Len(prediction) + 1)..Len(output) : output[i] = 0

(* C25: because each callback appends the current frame before           *)
(* predicting, predict is never called on an empty history and the current *)
(* frame is always one of the candidates searched; with a capacity of 2 or *)
(* more the identity fallback is taken on exactly the first frame callback *)
(* of a session and on no later callback of that session.                  *)
C25_IdentityOnFirstCallbackOnly ==
    [][CallbackStep =>
          /\ pastPatterns' # << >>
          /\ Last(pastPatterns') = Last(log')
          /\ (Len(pastPatterns') - 1) \in Scope(pastPatterns')
          /\ Capacity >= 2 => (path' = "identity" <=> FirstCallback)]_vars

\* The gains of the first three filters are all boosted, or all attenuated.
GainsMoveTogether ==
    \/ \A i \in 1..3 : filters[i].gain = CarBaseGains[i] * 12
    \/ \A i \in 1..3 : filters[i].gain = CarBaseGains[i] * 8

(* C26: in the car-optimized processor the ring write index is 0 at every  *)
(* callback boundary and each 256-sample frame overwrites all 16 slots of  *)
(* every ring, so after every callback the engine, tire and wind energies  *)
(* are equal to one another and equal to the sum of squares of the current *)
(* frame's samples at indices 0, 16, ..., 240, with no carry-over from     *)
(* earlier frames; hence the three filter gains always boost or attenuate  *)
(* together.                                                               *)
C26_RingsHoldCurrentFrameOnly ==
    CarRan =>
        LET kept == Decimated(Last(log))
        IN  /\ bufferIndex = 0
            /\ Len(kept) = RING_SIZE
            /\ \A k \in 0..(RING_SIZE - 1) :
                   /\ engineBuffer[k] = kept[k + 1]
                   /\ tireBuffer[k] = kept[k + 1]
                   /\ windBuffer[k] = kept[k + 1]
            /\ \A b \in Bands : energy[b] = SumOfSquares(kept)
            /\ Len(filters) >= 3 => GainsMoveTogether

\* A loud frame was followed by a quiet one: the energies are those of the
\* quiet frame alone and all three gains are attenuated.
C26_Witness ==
    /\ CarRan
    /\ Len(log) >= 2
    /\ SumOfSquares(Decimated(log[Len(log) - 1])) > 10
    /\ energy.engine > 0
    /\ energy.engine <= 10
    /\ \A i \in 1..3 : filters[i].gain = CarBaseGains[i] * 8

(* C10: in the delay-compensating processor the read index trails the      *)
(* write index by the configured delay d (0 wired, 200 ms of samples       *)
(* Bluetooth): the k-th sample read from the delay line is the (k-d)-th    *)
(* sample written, zero for k <= d, and the output is its negation.        *)
C10_ReadTrailsWriteByDelay ==
    variant = "delay" =>
        /\ \A k \in 1..Len(readOut) :
               readOut[k] = IF k <= delayTime THEN 0
                            ELSE written[k - delayTime]
        /\ \A i \in 1..Len(output) :
               output[i] = -readOut[Len(readOut) - Len(output) + i]

====
